---- MODULE Spec2Model ----
\* Model of calculate_balance_changes (src/src/main.rs): the settlement of a
\* MultiSend transfer with per-denom burn and commission fees.
\*
\* One call of the function is one behaviour: Init holds the three arguments
\* and the locals as they are after lines 129-149, and the actions walk
\* through the function's loops in program order.
\*
\* Representation:
\*  - a HashMap is a function whose DOMAIN is the set of keys present;
\*  - a Vec<Balance> of the transfer is flattened to its legs (address, coin)
\*    in iteration order of the nested loops;
\*  - the snapshot has one Balance per address and the catalog one definition
\*    per denom (the caller's precondition), so both are functions too;
\*  - a rate is a pair <<n, d>> meaning n/d with d a power of two, so that
\*    the f64 product share * rate and its ceil() are exact;
\*  - amounts are non-negative, so Rust's truncating i128 division is \div;
\*  - a Rust panic (failed unwrap, division by zero) is the outcome "panic".
EXTENDS Integers, Sequences, FiniteSets, TLC

\* ---------------------------------------------------------------- bounds
\* The arguments of a call are drawn from two families.  Spec: transfers of
\* one denom among three addresses, the two accounts funded and the issuer
\* funded or without an entry.  SpecTwoDenoms: small transfers of two denoms
\* among two addresses, each the issuer of one denom, over every shape of
\* snapshot and catalog.

\* Spec: the largest amount of a transfer leg
MaxAmount == 4
\* Spec: the largest number of legs, input and output together
MaxLegs == 3
\* SpecTwoDenoms: the largest amount of a transfer leg
TwoDenomAmount == 1
\* SpecTwoDenoms: the largest number of legs, input and output together
TwoDenomLegs == 2
\* the amount a snapshot entry holds
MaxBalance == 4

Addresses == {"account1", "account2", "issuer_account_A"}
TwoAddresses == {"account1", "issuer_account_A"}
Denoms == {"denom1", "denom2"}
OneDenom == {"denom1"}
\* <<burn_rate, commission_rate>>, each rate a pair <<n, d>> for n/d
RatePairs == {<<<<0, 1>>, <<0, 1>>>>, <<<<1, 2>>, <<1, 1>>>>}
HalfRates == {<<<<1, 2>>, <<1, 2>>>>}

ErrUndefined == "Undefined definition"
ErrMismatch == "Input and output does not match"
ErrBalance == "Not enough balance"

VARIABLES original_balances, definitions, multi_send_tx,
          result, definition_map,
          total_input, total_output, non_issuer_input, non_issuer_output,
          burn, commission, pc, idx, ret, balance_changes

vars == <<original_balances, definitions, multi_send_tx, result, definition_map,
          total_input, total_output, non_issuer_input, non_issuer_output,
          burn, commission, pc, idx, ret, balance_changes>>

args == <<original_balances, definitions, multi_send_tx, definition_map>>
accs == <<total_input, total_output, non_issuer_input, non_issuer_output>>
fees == <<burn, commission>>

\* ---------------------------------------------------------------- helpers
EmptyMap == <<>>

\* HashMap::insert / entry().or_insert on a function
Put(m, k, v) == [x \in (DOMAIN m) \cup {k} |-> IF x = k THEN v ELSE m[x]]

\* HashMap::get(..).unwrap_or(&0)
GetOr0(m, k) == IF k \in DOMAIN m THEN m[k] ELSE 0

\* (x as f64 * rate).ceil() as i128, for x >= 0 and a rate n/d
CeilMul(x, rate) == (x * rate[1] + rate[2] - 1) \div rate[2]

\* ---------------------------------------------------------------- inputs
\* every snapshot over addresses A and denoms D: an address is absent, or
\* listed with any set of the denoms (the empty set too)
SnapshotsOver(A, D) ==
  LET CoinMaps == UNION {[X -> {MaxBalance}] : X \in SUBSET D}
  IN UNION {[S -> CoinMaps] : S \in SUBSET A}

\* the snapshots in which every address of A holds every denom of D
FundedSnapshots(A, D) == {[a \in A |-> [d \in D |-> MaxBalance]]}

DefinitionsOf(issuers, rates) ==
  {[issuer |-> i, burn_rate |-> r[1], commission_rate |-> r[2]] :
     i \in issuers, r \in rates}

\* every transfer of at most n legs, input and output legs together
TransfersOver(A, D, amt, n) ==
  LET LegSeqs(k) == [1..k -> [address : A, denom : D, amount : 0..amt]]
  IN UNION {[inputs : LegSeqs(p[1]), outputs : LegSeqs(p[2])] :
              p \in {q \in (0..n) \X (0..n) : q[1] + q[2] <= n}}

InitOneDenom ==
  /\ original_balances \in
       FundedSnapshots(Addresses, OneDenom)
         \cup FundedSnapshots(Addresses \ {"issuer_account_A"}, OneDenom)
  /\ definitions \in [OneDenom -> DefinitionsOf({"issuer_account_A"}, RatePairs)]
  /\ multi_send_tx \in TransfersOver(Addresses, OneDenom, MaxAmount, MaxLegs)

\* the calls of InitOneDenom in which every address is funded
InitAllFunded ==
  /\ original_balances \in FundedSnapshots(Addresses, OneDenom)
  /\ definitions \in [OneDenom -> DefinitionsOf({"issuer_account_A"}, RatePairs)]
  /\ multi_send_tx \in TransfersOver(Addresses, OneDenom, MaxAmount, MaxLegs)

InitTwoDenoms ==
  /\ original_balances \in SnapshotsOver(TwoAddresses, Denoms)
  /\ definitions \in
       {c \in UNION {[X -> DefinitionsOf(TwoAddresses, RatePairs \cup HalfRates)] :
                       X \in SUBSET Denoms} :
          /\ "denom1" \in DOMAIN c => c["denom1"].issuer = "issuer_account_A"
          /\ "denom2" \in DOMAIN c =>
               c["denom2"] \in DefinitionsOf({"account1"}, HalfRates)}
  /\ multi_send_tx \in TransfersOver(TwoAddresses, Denoms, TwoDenomAmount, TwoDenomLegs)

\* lines 129-138: the working ledger seeded from the snapshot; an address
\* whose coin list is empty gets no ledger entry
SeedLedger(snapshot) ==
  [a \in {x \in DOMAIN snapshot : DOMAIN snapshot[x] # {}} |-> snapshot[a]]

\* lines 129-149: the locals on entry to the first loop
Locals ==
  /\ result = SeedLedger(original_balances)
  /\ definition_map = definitions
  /\ total_input = EmptyMap
  /\ total_output = EmptyMap
  /\ non_issuer_input = EmptyMap
  /\ non_issuer_output = EmptyMap
  /\ burn = 0
  /\ commission = 0
  /\ pc = "aggregate"
  /\ idx = 1
  /\ ret = "none"
  /\ balance_changes = <<>>

Init == InitOneDenom /\ Locals

InitFunded == InitAllFunded /\ Locals

InitSmall == InitTwoDenoms /\ Locals

\* ---------------------------------------------------------------- stage 1
\* lines 151-164 / 166-179: one pass over a leg list, accumulating the total
\* and the non-issuer total per denom; "err" is set by the first undefined denom
RECURSIVE Accumulate(_, _, _)
Accumulate(legs, i, acc) ==
  IF i > Len(legs) \/ acc.err THEN acc
  ELSE LET leg == legs[i] IN
       IF leg.denom \in DOMAIN definition_map
       THEN LET def == definition_map[leg.denom]
                tot == GetOr0(acc.total, leg.denom) + leg.amount
                non == GetOr0(acc.non_issuer, leg.denom)
                       + (IF def.issuer # leg.address THEN leg.amount ELSE 0)
            IN Accumulate(legs, i + 1,
                 [total |-> Put(acc.total, leg.denom, tot),
                  non_issuer |-> Put(acc.non_issuer, leg.denom, non),
                  err |-> FALSE])
       ELSE [acc EXCEPT !.err = TRUE]

EmptyAcc == [total |-> EmptyMap, non_issuer |-> EmptyMap, err |-> FALSE]

\* where the function continues once the conservation check has passed
AfterCheck ==
  IF Len(multi_send_tx.inputs) > 0 THEN "inputs"
  ELSE IF Len(multi_send_tx.outputs) > 0 THEN "outputs" ELSE "diff"

AfterInputs == IF Len(multi_send_tx.outputs) > 0 THEN "outputs" ELSE "diff"

Fail(e) ==
  /\ ret' = e
  /\ pc' = "done"

\* mutant: the output legs are not checked for a definition
OutputUndefinedUnchecked(outs) == FALSE

\* lines 175-177: the output pass met a denom without a definition
OutputUndefined(outs) == outs.err

Aggregate ==
  /\ pc = "aggregate"
  /\ LET ins == Accumulate(multi_send_tx.inputs, 1, EmptyAcc)
         outs == Accumulate(multi_send_tx.outputs, 1, EmptyAcc)
     IN IF ins.err
        THEN /\ Fail(ErrUndefined)
             /\ UNCHANGED accs
        ELSE /\ total_input' = ins.total
             /\ non_issuer_input' = ins.non_issuer
             /\ IF OutputUndefined(outs)
                THEN /\ Fail(ErrUndefined)
                     /\ UNCHANGED <<total_output, non_issuer_output>>
                ELSE /\ total_output' = outs.total
                     /\ non_issuer_output' = outs.non_issuer
                     /\ pc' = "check"
                     /\ UNCHANGED ret
  /\ UNCHANGED <<args, result, fees, idx, balance_changes>>

\* ---------------------------------------------------------------- stage 2
\* lines 181-186: only the denoms of total_input are visited
Mismatch == \E d \in DOMAIN total_input : total_input[d] # GetOr0(total_output, d)

CheckConservation ==
  /\ pc = "check"
  /\ IF Mismatch
     THEN Fail(ErrMismatch)
     ELSE /\ pc' = AfterCheck
          /\ UNCHANGED ret
  /\ UNCHANGED <<args, accs, result, fees, idx, balance_changes>>

\* ---------------------------------------------------------------- stage 3
Min(a, b) == IF a > b THEN b ELSE a

\* mutant: the base is not capped by the non-issuer output
BurnAmountUncapped(d) == non_issuer_input[d]

\* lines 196-201: burn_amount = min(non_issuer_input, non_issuer_output)
BurnAmount(d) == Min(non_issuer_input[d], non_issuer_output[d])

\* mutant: the share is taken of the non-issuer input, as the comment of
\* lines 100-103 words it
LegShareOfNonIssuer(leg) ==
  IF non_issuer_input[leg.denom] = 0 THEN 0
  ELSE (leg.amount * BurnAmount(leg.denom)) \div non_issuer_input[leg.denom]

\* lines 206 and 208: coin.amount * burn_amount / total_input
LegShare(leg) == (leg.amount * BurnAmount(leg.denom)) \div total_input[leg.denom]

\* mutant: the issuer is charged the burn like any sender
LegBurnNoExemption(leg) ==
  IF total_input[leg.denom] = 0 THEN 0
  ELSE CeilMul(LegShare(leg), definition_map[leg.denom].burn_rate)

\* lines 203-207
LegBurn(leg) ==
  LET def == definition_map[leg.denom] IN
  IF def.issuer # leg.address THEN CeilMul(LegShare(leg), def.burn_rate) ELSE 0

\* lines 204-211
LegCommission(leg) ==
  LET def == definition_map[leg.denom] IN
  IF def.issuer # leg.address THEN CeilMul(LegShare(leg), def.commission_rate) ELSE 0

\* line 212
NewAmount(leg) == leg.amount + LegBurn(leg) + LegCommission(leg)

\* lines 192-195: the sender's ledger entry for the denom exists
HasEntry(ledger, a, d) == a \in DOMAIN ledger /\ d \in DOMAIN ledger[a]

\* mutant: the balance is compared with the amount sent, the fees left out
InsufficientForAmount(ledger, leg) == ledger[leg.address][leg.denom] < leg.amount

\* line 213: *original_balance < new_amount
Insufficient(ledger, leg) == ledger[leg.address][leg.denom] < NewAmount(leg)

\* line 216
Debit(ledger, a, d, amt) == [ledger EXCEPT ![a][d] = @ - amt]

\* lines 217-222: entry(issuer).or_insert(..).entry(denom).and_modify(+=).or_insert(..)
CreditCommission(ledger, a, d, amt) ==
  LET coins == IF a \in DOMAIN ledger THEN ledger[a] ELSE EmptyMap
  IN Put(ledger, a, Put(coins, d, GetOr0(coins, d) + amt))

\* lines 197 and 206: the unwrap of a missing non_issuer_output entry and the
\* division by a zero total_input abort the program
Panics(leg) ==
  \/ leg.denom \notin DOMAIN non_issuer_output
  \/ /\ definition_map[leg.denom].issuer # leg.address
     /\ total_input[leg.denom] = 0

StepOrLeave(n, after) ==
  IF idx < n THEN idx' = idx + 1 /\ pc' = pc
             ELSE idx' = 1 /\ pc' = after

ApplyInput ==
  /\ pc = "inputs"
  /\ LET leg == multi_send_tx.inputs[idx] IN
       IF ~HasEntry(result, leg.address, leg.denom)
       THEN Fail(ErrBalance) /\ UNCHANGED <<result, fees, idx>>
       ELSE IF Panics(leg)
       THEN Fail("panic") /\ UNCHANGED <<result, fees, idx>>
       ELSE /\ burn' = LegBurn(leg)
            /\ commission' = LegCommission(leg)
            /\ IF Insufficient(result, leg)
               THEN Fail(ErrBalance) /\ UNCHANGED <<result, idx>>
               ELSE /\ result' = CreditCommission(
                                   Debit(result, leg.address, leg.denom, NewAmount(leg)),
                                   definition_map[leg.denom].issuer, leg.denom,
                                   LegCommission(leg))
                    /\ StepOrLeave(Len(multi_send_tx.inputs), AfterInputs)
                    /\ UNCHANGED ret
  /\ UNCHANGED <<args, accs, balance_changes>>

\* ---------------------------------------------------------------- stage 4
\* lines 228-234: entry(address).or_insert(..).entry(denom).or_insert(0) += amount
CreditOutput(ledger, a, d, amt) ==
  LET coins == IF a \in DOMAIN ledger THEN ledger[a] ELSE EmptyMap
  IN Put(ledger, a, Put(coins, d, GetOr0(coins, d) + amt))

ApplyOutput ==
  /\ pc = "outputs"
  /\ LET leg == multi_send_tx.outputs[idx] IN
       result' = CreditOutput(result, leg.address, leg.denom, leg.amount)
  /\ StepOrLeave(Len(multi_send_tx.outputs), "diff")
  /\ UNCHANGED <<args, accs, fees, ret, balance_changes>>

\* lines 251-273: an address found in the snapshot; only the denoms that the
\* snapshot entry holds are pushed
ChangeCoins(a) ==
  [d \in (DOMAIN result[a]) \cap (DOMAIN original_balances[a]) |->
     result[a][d] - original_balances[a][d]]

\* mutant: a new account is pushed whatever it holds
AllZeroNever(coins) == FALSE

\* line 275
AllZero(coins) == \A d \in DOMAIN coins : coins[d] = 0

\* lines 250-279: the records pushed to balance_changes
Changes ==
  {[address |-> a, coins |-> ChangeCoins(a)] :
     a \in (DOMAIN result) \cap (DOMAIN original_balances)}
  \cup
  {[address |-> a, coins |-> result[a]] :
     a \in {x \in (DOMAIN result) \ (DOMAIN original_balances) : ~AllZero(result[x])}}

\* lines 240-246: a HashMap is iterated in an unspecified order
Orderings(S) ==
  {s \in [1..Cardinality(S) -> S] : \A i, j \in DOMAIN s : i # j => s[i] # s[j]}

Diff ==
  /\ pc = "diff"
  /\ balance_changes' \in Orderings(Changes)
  /\ ret' = "Ok"
  /\ pc' = "done"
  /\ UNCHANGED <<args, accs, result, fees, idx>>

\* ---------------------------------------------------------------- spec
Next == Aggregate \/ CheckConservation \/ ApplyInput \/ ApplyOutput \/ Diff

Spec == Init /\ [][Next]_vars

SpecFunded == InitFunded /\ [][Next]_vars

SpecTwoDenoms == InitSmall /\ [][Next]_vars

\* ---------------------------------------------------------------- claims
\* The quantities the claims speak of, computed from the three arguments
\* alone (never from the accumulators or the ledger of the function).
RECURSIVE SumOver(_, _)
SumOver(f, S) ==
  IF S = {} THEN 0
  ELSE LET x == CHOOSE y \in S : TRUE IN f[x] + SumOver(f, S \ {x})

Inputs == multi_send_tx.inputs
Outputs == multi_send_tx.outputs

LegDenoms(legs) == {legs[i].denom : i \in DOMAIN legs}
TransferDenoms == LegDenoms(Inputs) \cup LegDenoms(Outputs)
AllDefined == TransferDenoms \subseteq DOMAIN definitions

LegsOf(legs, d) == {i \in DOMAIN legs : legs[i].denom = d}
NonIssuerLegsOf(legs, d) ==
  {i \in LegsOf(legs, d) : legs[i].address # definitions[d].issuer}
AmountSum(legs, I) == SumOver([i \in I |-> legs[i].amount], I)

InSum(d) == AmountSum(Inputs, LegsOf(Inputs, d))
OutSum(d) == AmountSum(Outputs, LegsOf(Outputs, d))
BurnBase(d) ==
  Min(AmountSum(Inputs, NonIssuerLegsOf(Inputs, d)),
      AmountSum(Outputs, NonIssuerLegsOf(Outputs, d)))

\* ceiling(x * n/d): the least integer that is no less than x * n/d
Ceiling(x, rate) == CHOOSE n \in 0..(x * rate[1]) :
                      /\ n * rate[2] >= x * rate[1]
                      /\ (n - 1) * rate[2] < x * rate[1]

\* the share, burn and commission of input leg i
ShareOf(i) ==
  (Inputs[i].amount * BurnBase(Inputs[i].denom)) \div InSum(Inputs[i].denom)
IsIssuerLeg(i) == Inputs[i].address = definitions[Inputs[i].denom].issuer
BurnOf(i) ==
  IF IsIssuerLeg(i) THEN 0
  ELSE Ceiling(ShareOf(i), definitions[Inputs[i].denom].burn_rate)
CommissionOf(i) ==
  IF IsIssuerLeg(i) THEN 0
  ELSE Ceiling(ShareOf(i), definitions[Inputs[i].denom].commission_rate)

\* what an address holds in the snapshot; no entry counts as nothing held
Held(a, d) ==
  IF a \in DOMAIN original_balances THEN GetOr0(original_balances[a], d) ELSE 0

\* the sum of the returned deltas of a denom over all addresses
DeltaSum(d) ==
  SumOver([i \in DOMAIN balance_changes |-> GetOr0(balance_changes[i].coins, d)],
          DOMAIN balance_changes)

Accepted == pc = "done" /\ ret = "Ok"

\* C1: when every denom of the transfer is defined and some denom of an input
\* or output leg has input total # output total (a side without the denom
\* counting as zero), the call returns the mismatch error and no deltas.
C1_MismatchRejected ==
  (pc = "done" /\ AllDefined /\ \E d \in TransferDenoms : InSum(d) # OutSum(d))
    => (ret = ErrMismatch /\ balance_changes = <<>>)

\* C2: the call ends with Ok or one of the three error values; it never
\* aborts on a failed unwrap or a division by zero.
C2_NoAbnormalAbort ==
  pc = "done" => ret \in {"Ok", ErrUndefined, ErrMismatch, ErrBalance}

\* C3: on an accepted transfer the deltas of every denom sum to minus the
\* total burn of the non-issuer input legs.
C3_Conservation ==
  Accepted =>
    \A d \in Denoms :
      DeltaSum(d) = 0 - SumOver([i \in LegsOf(Inputs, d) |-> BurnOf(i)],
                                LegsOf(Inputs, d))

\* the sum, over the input legs of a sender and a denom, of amount + burn +
\* commission
RequiredDebit(a, d) ==
  LET I == {i \in LegsOf(Inputs, d) : Inputs[i].address = a}
  IN SumOver([i \in I |-> Inputs[i].amount + BurnOf(i) + CommissionOf(i)], I)

\* C4: with all denoms defined and input total = output total per denom, a
\* sender whose legs require more (amount + burn + commission) than the
\* snapshot holds for it makes the call return the balance error.
C4_InsufficientRejected ==
  (/\ pc = "done"
   /\ AllDefined
   /\ \A d \in TransferDenoms : InSum(d) = OutSum(d)
   /\ \E d \in LegDenoms(Inputs) :
        /\ InSum(d) > 0
        /\ \E a \in Addresses : RequiredDebit(a, d) > Held(a, d))
    => ret = ErrBalance

\* C5: on an accepted transfer every address of the snapshot gets, for every
\* denom of its final ledger entry, the delta final - original, a denom it
\* did not hold counting as original amount 0.
C5_ExistingAccountDeltas ==
  Accepted =>
    \A a \in (DOMAIN original_balances) \cap (DOMAIN result) :
      \A d \in DOMAIN result[a] :
        \E i \in DOMAIN balance_changes :
          /\ balance_changes[i].address = a
          /\ d \in DOMAIN balance_changes[i].coins
          /\ balance_changes[i].coins[d] = result[a][d] - Held(a, d)

\* C6: a leg of a denom without a definition makes the call return the
\* undefined-definition error and no deltas, whatever else is wrong.
C6_UndefinedRejected ==
  (pc = "done" /\ ~AllDefined) => (ret = ErrUndefined /\ balance_changes = <<>>)

C6_Witness ==
  /\ pc = "done"
  /\ ret = ErrUndefined
  /\ Len(Inputs) > 0
  /\ \E d \in TransferDenoms : d \notin DOMAIN definitions /\ InSum(d) # OutSum(d)
  /\ \E i \in DOMAIN Inputs : Held(Inputs[i].address, Inputs[i].denom) < Inputs[i].amount

\* an input leg has just been applied to the ledger
LegApplied == pc = "inputs" /\ ret' = "none" /\ (idx' # idx \/ pc' # pc)

LedgerAmount(ledger, a, d) == IF HasEntry(ledger, a, d) THEN ledger[a][d] ELSE 0

C8_IssuerLegExempt ==
  [][(LegApplied /\ IsIssuerLeg(idx)) =>
       LET leg == Inputs[idx]
       IN /\ burn' = 0
          /\ commission' = 0
          /\ result' = [result EXCEPT ![leg.address][leg.denom] = @ - leg.amount]]_vars

C8_Witness ==
  /\ Accepted
  /\ \E i, j \in DOMAIN Inputs :
       /\ IsIssuerLeg(i)
       /\ Inputs[i].amount > 0
       /\ definitions[Inputs[i].denom].burn_rate # <<0, 1>>
       /\ definitions[Inputs[i].denom].commission_rate # <<0, 1>>
       /\ (Inputs[i].amount * BurnBase(Inputs[i].denom)) \div InSum(Inputs[i].denom) > 0
       /\ ~IsIssuerLeg(j)

\* what the call took out of circulation, and what it paid the issuer, of a
\* denom: read off the final ledger against the seeded one
LedgerTotal(ledger, d) ==
  SumOver([a \in DOMAIN ledger |-> GetOr0(ledger[a], d)], DOMAIN ledger)

ChargedBurn(d) ==
  LedgerTotal(SeedLedger(original_balances), d) - InSum(d) + OutSum(d)
    - LedgerTotal(result, d)

IssuerLegsOf(legs, d) == LegsOf(legs, d) \ NonIssuerLegsOf(legs, d)

ChargedCommission(d) ==
  LedgerAmount(result, definitions[d].issuer, d)
    - LedgerAmount(SeedLedger(original_balances), definitions[d].issuer, d)
    + AmountSum(Inputs, IssuerLegsOf(Inputs, d))
    - AmountSum(Outputs, IssuerLegsOf(Outputs, d))

\* C9: on an accepted transfer the burn of all input legs of a denom, and
\* their commission, are each at most burn_base of the denom.
C9_FeesCapped ==
  Accepted =>
    \A d \in LegDenoms(Inputs) :
      /\ ChargedBurn(d) <= BurnBase(d)
      /\ ChargedCommission(d) <= BurnBase(d)

C9_Witness ==
  /\ Accepted
  /\ \E d \in LegDenoms(Inputs) :
       /\ Cardinality(NonIssuerLegsOf(Inputs, d)) > 1
       /\ \A i \in NonIssuerLegsOf(Inputs, d) : BurnOf(i) > 0 /\ CommissionOf(i) > 0
       /\ definitions[d].burn_rate = <<1, 2>>
       /\ BurnBase(d) > 0
       /\ ChargedBurn(d) = BurnBase(d)
       /\ ChargedCommission(d) = BurnBase(d)

HasChange(a) == \E i \in DOMAIN balance_changes : balance_changes[i].address = a

\* C10: on an accepted transfer an address outside the snapshot is in the
\* result exactly when one of its final ledger amounts is non-zero, and no
\* address is in the result twice.
C10_NewAccountEntries ==
  Accepted =>
    /\ \A a \in Addresses \ DOMAIN original_balances :
         HasChange(a) <=>
           (a \in DOMAIN result /\ \E d \in DOMAIN result[a] : result[a][d] # 0)
    /\ \A i, j \in DOMAIN balance_changes :
         i # j => balance_changes[i].address # balance_changes[j].address

C10_Witness ==
  /\ Accepted
  /\ \E i \in DOMAIN Inputs :
       LET iss == definitions[Inputs[i].denom].issuer
       IN /\ ~IsIssuerLeg(i)
          /\ Inputs[i].amount > 0
          /\ iss \notin DOMAIN original_balances
          /\ iss \in DOMAIN result
          /\ \A d \in DOMAIN result[iss] : result[iss][d] = 0
          /\ ~HasChange(iss)

\* ------------------------------------------------ the call on reordered legs
\* every reordering of a leg list
PermutationsOf(legs) ==
  {[i \in DOMAIN legs |-> legs[f[i]]] : f \in Orderings(DOMAIN legs)}

\* lines 188-224 on a leg list and a ledger: the ledger after the last leg, or
\* the error (or abort) of the first leg that fails.  The per-denom totals are
\* read from the accumulators: a reordering has the legs, and so the totals,
\* of the transfer itself.
RECURSIVE ReplayInputs(_, _, _)
ReplayInputs(legs, i, ledger) ==
  IF i > Len(legs) THEN [ret |-> "none", ledger |-> ledger]
  ELSE LET leg == legs[i] IN
       IF ~HasEntry(ledger, leg.address, leg.denom)
       THEN [ret |-> ErrBalance, ledger |-> ledger]
       ELSE IF Panics(leg)
       THEN [ret |-> "panic", ledger |-> ledger]
       ELSE IF Insufficient(ledger, leg)
       THEN [ret |-> ErrBalance, ledger |-> ledger]
       ELSE ReplayInputs(legs, i + 1,
              CreditCommission(
                Debit(ledger, leg.address, leg.denom, NewAmount(leg)),
                definition_map[leg.denom].issuer, leg.denom, LegCommission(leg)))

\* lines 226-236 on a leg list and a ledger
RECURSIVE ReplayOutputs(_, _, _)
ReplayOutputs(legs, i, ledger) ==
  IF i > Len(legs) THEN ledger
  ELSE ReplayOutputs(legs, i + 1,
         CreditOutput(ledger, legs[i].address, legs[i].denom, legs[i].amount))

\* lines 250-279 on a final ledger: the records of Changes
ChangesOf(ledger) ==
  {[address |-> a,
    coins |-> [d \in (DOMAIN ledger[a]) \cap (DOMAIN original_balances[a]) |->
                 ledger[a][d] - original_balances[a][d]]] :
     a \in (DOMAIN ledger) \cap (DOMAIN original_balances)}
  \cup
  {[address |-> a, coins |-> ledger[a]] :
     a \in {x \in (DOMAIN ledger) \ (DOMAIN original_balances) : ~AllZero(ledger[x])}}

\* lines 151-280 on the leg lists ins and outs: the value returned and the set
\* of records returned with Ok
OutcomeOf(ins, outs) ==
  LET a == Accumulate(ins, 1, EmptyAcc)
      b == Accumulate(outs, 1, EmptyAcc)
      Rejected(e) == [ret |-> e, changes |-> {}]
  IN IF a.err \/ b.err THEN Rejected(ErrUndefined)
     ELSE IF \E d \in DOMAIN a.total : a.total[d] # GetOr0(b.total, d)
     THEN Rejected(ErrMismatch)
     ELSE LET after == ReplayInputs(ins, 1, SeedLedger(original_balances))
          IN IF after.ret # "none" THEN Rejected(after.ret)
             ELSE [ret |-> "Ok",
                   changes |-> ChangesOf(ReplayOutputs(outs, 1, after.ledger))]

\* what the call returned: the value and the set of records
Outcome ==
  [ret |-> ret, changes |-> {balance_changes[i] : i \in DOMAIN balance_changes}]

\* the replay of the legs in the order given is the call itself
ReplayIsTheCall == pc = "done" => OutcomeOf(Inputs, Outputs) = Outcome

\* C11: for a fixed snapshot and catalog the outcome does not depend on the
\* order of the legs: every reordering of the input legs and of the output
\* legs ends with the same error, or with Ok and the same set of deltas.
C11_OrderIndependent ==
  pc = "done" =>
    \A ins \in PermutationsOf(Inputs), outs \in PermutationsOf(Outputs) :
      OutcomeOf(ins, outs) = Outcome

\* C12: with non-negative snapshot amounts and leg amounts and rates in
\* [0, 1], every amount of the working ledger is non-negative after every
\* processed leg, and on an accepted transfer original amount + returned
\* delta is non-negative for every address and denom of the result.
C12_NoOverdraw ==
  /\ \A a \in DOMAIN result : \A d \in DOMAIN result[a] : result[a][d] >= 0
  /\ Accepted =>
       \A i \in DOMAIN balance_changes :
         \A d \in DOMAIN balance_changes[i].coins :
           Held(balance_changes[i].address, d) + balance_changes[i].coins[d] >= 0

C12_Witness ==
  /\ Accepted
  /\ \E i \in DOMAIN Inputs :
       LET leg == Inputs[i] IN
       /\ ~IsIssuerLeg(i)
       /\ BurnOf(i) > 0
       /\ CommissionOf(i) > 0
       /\ Held(leg.address, leg.denom) = RequiredDebit(leg.address, leg.denom)
       /\ result[leg.address][leg.denom] = 0
       /\ \E k \in DOMAIN balance_changes :
            /\ balance_changes[k].address = leg.address
            /\ balance_changes[k].coins[leg.denom] = 0 - Held(leg.address, leg.denom)

====
